---- MODULE Spec2Model ----
(***************************************************************************)
(* Model of static/script.js: the click handler of the "calc-btn" control. *)
(*                                                                         *)
(* The handler is an async function.  Its synchronous stretches run to     *)
(* completion on the single event-loop thread; it suspends at the two      *)
(* awaits (line 25, fetch; line 31, response.json()).  Every invocation    *)
(* has a position [line, st]: st = "run" means line `line` is the next one *)
(* to execute, st = "await" means the invocation is suspended in the await *)
(* of that line.  Events (a click, a selection change, the settling of a   *)
(* promise) are taken only while no invocation is running.                 *)
(*                                                                         *)
(* The document: calcBtn, resultArea, citySelect and resultDisplay (lines  *)
(* 2-5) exist, as the handler uses them unguarded; each of the six         *)
(* dashboard elements (lines 8-13) may be missing.  The page starts with   *)
(* the control idle, the results container hidden and empty.  The DOM      *)
(* calls themselves (classList, innerHTML, scrollIntoView, alert,          *)
(* console.error) return normally; what throws is what the data decides:   *)
(* a property read on null (line 33) or on an undefined weather_summary    *)
(* (lines 37-42).                                                          *)
(***************************************************************************)
EXTENDS Integers, Sequences, FiniteSets, TLC

\* Handler invocations that may be alive at the same time (slots of inv).
MaxInv == 2

Slots == 1..MaxInv

-----------------------------------------------------------------------------
(* Values *)

\* The six dashboard elements, named by the weather_summary field they show,
\* in the order of lines 37-42.
Fields == {"temp", "rh", "dew", "wind", "vis", "pressure"}

FieldLine == [temp |-> 37, rh |-> 38, dew |-> 39, wind |-> 40, vis |-> 41,
              pressure |-> 42]

\* The string appended to each value.
Unit == [temp |-> "°C", rh |-> "%", dew |-> "°C", wind |-> " km/h",
         vis |-> " km", pressure |-> " hPa"]

BusyLabel == "Connecting to Satellite..."
IdleLabel == "Analyze Satellite Data"
ConnFailed == "Connection Failed. Please check internet connection."

\* Text of the dashboard elements before any request (set by the page).
Placeholder == "--"

Cities == {"Paris", "Riyadh"}

\* An optional value (a property that may be undefined) is a sequence of
\* length at most one.
None == << >>
Some(v) == << v >>

W1 == [temp |-> 20, rh |-> 50, dew |-> 10, wind |-> 5, vis |-> 10,
       pressure |-> 1012]
W2 == [temp |-> -3, rh |-> 81, dew |-> -6, wind |-> 14, vis |-> 7,
       pressure |-> 998]

\* A parsed JSON body: null, or an object with optional properties.
JsonNull == [null |-> TRUE, error |-> None, ws |-> None, result |-> None]
Obj(e, w, r) == [null |-> FALSE, error |-> e, ws |-> w, result |-> r]

\* The bodies the service may answer with.
Datas == { JsonNull,
           Obj(Some("city not found"), None, None),
           Obj(Some(""), None, None),
           Obj(Some(""), Some(W2), Some("<p>Rain</p>")),
           Obj(None, Some(W1), Some("<p>Clear</p>")),
           Obj(None, Some(W2), Some("<p>Rain</p>")),
           Obj(None, Some(W1), Some("")),
           Obj(None, None, Some("<p>Clear</p>")) }

\* JavaScript truthiness of data.error (undefined and "" are falsy).
Truthy(e) == e # None /\ e[1] # ""

\* String conversion of a property in a concatenation or an innerHTML
\* assignment: undefined becomes "undefined".
Str(o) == IF o = None THEN "undefined" ELSE o[1]

\* value + unit, as lines 37-42 build it.
Format(w, f) == ToString(w[f]) \o Unit[f]

-----------------------------------------------------------------------------
(* State *)

VARIABLES
    present,      \* the dashboard elements that exist in the document
    city,         \* citySelect.value
    btnText,      \* calcBtn.innerText
    btnDisabled,  \* calcBtn.disabled
    hidden,       \* resultArea has the class "hidden"
    display,      \* resultDisplay.innerHTML
    text,         \* innerText of each dashboard element
    inv,          \* the handler invocations, by slot
    last          \* record of the invocation that returned most recently

vars == << present, city, btnText, btnDisabled, hidden, display, text, inv,
           last >>

dom == << btnText, btnDisabled, hidden, display, text >>

\* A free slot.  The fields after `data` record what the invocation did:
\* notes are the alerts it showed, logged whether it called console.error,
\* scrolled whether it scrolled the results into view, sent how many
\* requests it issued, branch the side of the test of line 33 it took,
\* text0 the dashboard texts when it was triggered.
Free == [line |-> 0, st |-> "free", payload |-> None, data |-> None,
         notes |-> << >>, logged |-> FALSE, scrolled |-> FALSE,
         sent |-> 0, branch |-> "none",
         text0 |-> [f \in Fields |-> Placeholder]]

\* What is kept of an invocation r once it has returned; kept tells whether
\* the dashboard texts are those of the moment it was triggered.
Summary(r) == [st |-> "done", data |-> r.data, notes |-> r.notes,
               logged |-> r.logged, scrolled |-> r.scrolled, sent |-> r.sent,
               branch |-> r.branch, kept |-> (text = r.text0)]

Alive(i) == inv[i].st # "free"
Running(i) == inv[i].st = "run"
At(i, n) == inv[i].st = "run" /\ inv[i].line = n
Awaiting(i, n) == inv[i].st = "await" /\ inv[i].line = n

\* The event loop is free to take an event.
LoopIdle == \A i \in Slots : ~Running(i)

\* The request of invocation i is out and its body not yet received.
InFlight(i) == Awaiting(i, 25) \/ At(i, 31) \/ Awaiting(i, 31)

Goto(i, n) == [inv EXCEPT ![i].line = n, ![i].st = "run"]

Init ==
    /\ present \in SUBSET Fields
    /\ city \in Cities
    /\ btnText = IdleLabel
    /\ btnDisabled = FALSE
    /\ hidden = TRUE
    /\ display = ""
    /\ text = [f \in Fields |-> Placeholder]
    /\ inv = [i \in Slots |-> Free]
    /\ last = [Summary(Free) EXCEPT !.st = "never"]

-----------------------------------------------------------------------------
(* Events *)

\* The user picks another city.
SelectCity(c) ==
    /\ LoopIdle
    /\ c # city
    /\ city' = c
    /\ UNCHANGED << present, dom, inv, last >>

\* A click on calcBtn.  A disabled button dispatches no click event.
Click(i) ==
    /\ LoopIdle
    /\ ~btnDisabled
    /\ ~Alive(i)
    /\ \A j \in Slots : j < i => Alive(j)
    /\ inv' = [inv EXCEPT ![i] = [Free EXCEPT !.line = 17, !.st = "run",
                                               !.text0 = text]]
    /\ UNCHANGED << present, city, dom, last >>

\* The promise of fetch resolves: the response's head has arrived.
FetchResolve(i) ==
    /\ LoopIdle
    /\ Awaiting(i, 25)
    /\ inv' = Goto(i, 31)
    /\ UNCHANGED << present, city, dom, last >>

\* The promise of fetch rejects: a network failure.
FetchReject(i) ==
    /\ LoopIdle
    /\ Awaiting(i, 25)
    /\ inv' = Goto(i, 53)
    /\ UNCHANGED << present, city, dom, last >>

\* The promise of response.json() resolves with the parsed body.
JsonResolve(i, d) ==
    /\ LoopIdle
    /\ Awaiting(i, 31)
    /\ inv' = [Goto(i, 33) EXCEPT ![i].data = Some(d)]
    /\ UNCHANGED << present, city, dom, last >>

\* The promise of response.json() rejects: the body is not JSON.
JsonReject(i) ==
    /\ LoopIdle
    /\ Awaiting(i, 31)
    /\ inv' = Goto(i, 53)
    /\ UNCHANGED << present, city, dom, last >>

-----------------------------------------------------------------------------
(* The handler, line by line *)

Line17(i) ==
    /\ At(i, 17)
    /\ btnText' = BusyLabel
    /\ inv' = Goto(i, 18)
    /\ UNCHANGED << present, city, btnDisabled, hidden, display, text, last >>

\* Line 18 left out: the control stays enabled during the request.
Line18_NoDisable(i) ==
    /\ At(i, 18)
    /\ inv' = Goto(i, 19)
    /\ UNCHANGED << present, city, dom, last >>

Line18(i) ==
    /\ At(i, 18)
    /\ btnDisabled' = TRUE
    /\ inv' = Goto(i, 19)
    /\ UNCHANGED << present, city, btnText, hidden, display, text, last >>

\* Line 19 left out: the results container keeps its visibility.
Line19_NoHide(i) ==
    /\ At(i, 19)
    /\ inv' = Goto(i, 20)
    /\ UNCHANGED << present, city, dom, last >>

Line19(i) ==
    /\ At(i, 19)
    /\ hidden' = TRUE
    /\ inv' = Goto(i, 20)
    /\ UNCHANGED << present, city, btnText, btnDisabled, display, text, last >>

\* Line 20 left out: the previous markup stays in the result display.
Line20_NoClear(i) ==
    /\ At(i, 20)
    /\ inv' = Goto(i, 22)
    /\ UNCHANGED << present, city, dom, last >>

\* Line 20 clearing the dashboard elements along with the result display.
Line20_ClearAll(i) ==
    /\ At(i, 20)
    /\ display' = ""
    /\ text' = [f \in Fields |-> IF f \in present THEN "" ELSE text[f]]
    /\ inv' = Goto(i, 22)
    /\ UNCHANGED << present, city, btnText, btnDisabled, hidden, last >>

Line20(i) ==
    /\ At(i, 20)
    /\ display' = ""
    /\ inv' = Goto(i, 22)
    /\ UNCHANGED << present, city, btnText, btnDisabled, hidden, text, last >>

Line22(i) ==
    /\ At(i, 22)
    /\ inv' = [Goto(i, 25) EXCEPT ![i].payload = Some([city |-> city])]
    /\ UNCHANGED << present, city, dom, last >>

\* fetch('/assess', POST, payload) is called and the handler suspends.
Line25(i) ==
    /\ At(i, 25)
    /\ inv' = [inv EXCEPT ![i].st = "await", ![i].sent = @ + 1]
    /\ UNCHANGED << present, city, dom, last >>

\* response.json() is called and the handler suspends.
Line31(i) ==
    /\ At(i, 31)
    /\ inv' = [inv EXCEPT ![i].st = "await"]
    /\ UNCHANGED << present, city, dom, last >>

\* if (data.error): reading a property of null throws.
Line33(i) ==
    /\ At(i, 33)
    /\ LET d == inv[i].data[1] IN
       inv' = IF d.null THEN Goto(i, 53)
              ELSE IF Truthy(d.error)
                   THEN [Goto(i, 34) EXCEPT ![i].branch = "error"]
                   ELSE [Goto(i, 37) EXCEPT ![i].branch = "success"]
    /\ UNCHANGED << present, city, dom, last >>

\* Line 34 with the reveal of line 46 placed after the if/else, so that it
\* also follows the alert.
Line34_Reveal(i) ==
    /\ At(i, 34)
    /\ hidden' = FALSE
    /\ inv' = [Goto(i, 57) EXCEPT
                 ![i].notes = Append(@, "Alert: " \o inv[i].data[1].error[1])]
    /\ UNCHANGED << present, city, btnText, btnDisabled, display, text, last >>

\* Line 34 followed by a throw: the alert of the catch block follows it.
Line34_Rethrow(i) ==
    /\ At(i, 34)
    /\ inv' = [Goto(i, 53) EXCEPT
                 ![i].notes = Append(@, "Alert: " \o inv[i].data[1].error[1])]
    /\ UNCHANGED << present, city, dom, last >>

Line34(i) ==
    /\ At(i, 34)
    /\ inv' = [Goto(i, 57) EXCEPT
                 ![i].notes = Append(@, "Alert: " \o inv[i].data[1].error[1])]
    /\ UNCHANGED << present, city, dom, last >>

\* Lines 37-42 without the test of the element: writing the innerText of a
\* missing (null) element throws.
LineField_NoCheck(i, f) ==
    /\ At(i, FieldLine[f])
    /\ LET d == inv[i].data[1]
           next == IF f = "pressure" THEN 45 ELSE FieldLine[f] + 1
       IN  IF f \notin present \/ d.ws = None
           THEN inv' = Goto(i, 53) /\ text' = text
           ELSE /\ inv' = Goto(i, next)
                /\ text' = [text EXCEPT ![f] = Format(d.ws[1], f)]
    /\ UNCHANGED << present, city, btnText, btnDisabled, hidden, display, last >>

\* if (wX) wX.innerText = data.weather_summary.x + unit, at line FieldLine[f].
\* The element is tested first; reading a field of an undefined
\* weather_summary throws.
LineField(i, f) ==
    /\ At(i, FieldLine[f])
    /\ LET d == inv[i].data[1]
           next == IF f = "pressure" THEN 45 ELSE FieldLine[f] + 1
       IN  IF f \notin present
           THEN inv' = Goto(i, next) /\ text' = text
           ELSE IF d.ws = None
                THEN inv' = Goto(i, 53) /\ text' = text
                ELSE /\ inv' = Goto(i, next)
                     /\ text' = [text EXCEPT ![f] = Format(d.ws[1], f)]
    /\ UNCHANGED << present, city, btnText, btnDisabled, hidden, display, last >>

Line45(i) ==
    /\ At(i, 45)
    /\ display' = Str(inv[i].data[1].result)
    /\ inv' = Goto(i, 46)
    /\ UNCHANGED << present, city, btnText, btnDisabled, hidden, text, last >>

Line46(i) ==
    /\ At(i, 46)
    /\ hidden' = FALSE
    /\ inv' = Goto(i, 49)
    /\ UNCHANGED << present, city, btnText, btnDisabled, display, text, last >>

Line49(i) ==
    /\ At(i, 49)
    /\ inv' = [Goto(i, 57) EXCEPT ![i].scrolled = TRUE]
    /\ UNCHANGED << present, city, dom, last >>

Line53(i) ==
    /\ At(i, 53)
    /\ inv' = [Goto(i, 54) EXCEPT ![i].logged = TRUE]
    /\ UNCHANGED << present, city, dom, last >>

\* Line 54 left out: the catch block only logs.
Line54_NoAlert(i) ==
    /\ At(i, 54)
    /\ inv' = Goto(i, 57)
    /\ UNCHANGED << present, city, dom, last >>

\* Line 54 with no finally block after the catch block: the handler returns
\* after the alert.
Line54_NoFinally(i) ==
    /\ At(i, 54)
    /\ last' = Summary([inv[i] EXCEPT !.notes = Append(@, ConnFailed)])
    /\ inv' = [inv EXCEPT ![i] = Free]
    /\ UNCHANGED << present, city, dom >>

Line54(i) ==
    /\ At(i, 54)
    /\ inv' = [Goto(i, 57) EXCEPT ![i].notes = Append(@, ConnFailed)]
    /\ UNCHANGED << present, city, dom, last >>

Line57(i) ==
    /\ At(i, 57)
    /\ btnText' = IdleLabel
    /\ inv' = Goto(i, 58)
    /\ UNCHANGED << present, city, btnDisabled, hidden, display, text, last >>

\* The last statement: the control is enabled again and the handler returns.
Line58(i) ==
    /\ At(i, 58)
    /\ btnDisabled' = FALSE
    /\ last' = Summary(inv[i])
    /\ inv' = [inv EXCEPT ![i] = Free]
    /\ UNCHANGED << present, city, btnText, hidden, display, text >>

-----------------------------------------------------------------------------

Handler(i) ==
    \/ Line17(i) \/ Line18(i) \/ Line19(i) \/ Line20(i) \/ Line22(i)
    \/ Line25(i) \/ Line31(i) \/ Line33(i) \/ Line34(i)
    \/ \E f \in Fields : LineField(i, f)
    \/ Line45(i) \/ Line46(i) \/ Line49(i)
    \/ Line53(i) \/ Line54(i) \/ Line57(i) \/ Line58(i)

Settle(i) ==
    \/ FetchResolve(i) \/ FetchReject(i)
    \/ \E d \in Datas : JsonResolve(i, d)
    \/ JsonReject(i)

Next ==
    \/ \E c \in Cities : SelectCity(c)
    \/ \E i \in Slots : Click(i)
    \/ \E i \in Slots : Settle(i)
    \/ \E i \in Slots : Handler(i)

Spec == Init /\ [][Next]_vars

\* A running handler runs on, and a request resolves or rejects.
FairSpec ==
    /\ Spec
    /\ \A i \in Slots : WF_vars(Handler(i)) /\ WF_vars(Settle(i))

-----------------------------------------------------------------------------
(* Properties *)

NoneAlive == \A i \in Slots : ~Alive(i)

\* The control is idle: enabled, with its original label.
IdleCtl == ~btnDisabled /\ btnText = IdleLabel

\* The busy state the reset of lines 17-20 establishes.
BusyState ==
    btnDisabled /\ btnText = BusyLabel /\ hidden /\ display = ""

\* An invocation has returned and none has been triggered since.
Settled == NoneAlive /\ last.st = "done"

\* The last cycle failed: the fetch or the parse was rejected (no data), the
\* body was null, or the branch taken met an undefined weather_summary at an
\* element that exists.
Failed(r) ==
    \/ r.data = None
    \/ r.data[1].null
    \/ r.branch = "success" /\ r.data[1].ws = None /\ present # {}

\* A well-formed success body: no error, a weather_summary and a result.
WellFormed(d) ==
    ~d.null /\ d.error = None /\ d.ws # None /\ d.result # None

\* C1: every invocation, whatever path it takes, puts the control back to
\* idle exactly once, as its last step: the control is idle whenever no
\* handler is alive, it becomes idle only by the step with which a handler
\* returns (line 58), every return is such a step, and (the request resolving
\* or rejecting) a disabled control is eventually idle again.
C1_RestoredOnceAsLastStep ==
    /\ [](NoneAlive => IdleCtl)
    /\ [][(~IdleCtl /\ IdleCtl') =>
            \E i \in Slots : At(i, 58) /\ ~Alive(i)']_vars
    /\ [][\A i \in Slots : (Alive(i) /\ ~Alive(i)') =>
            (~IdleCtl /\ IdleCtl')]_vars
    /\ (btnDisabled ~> IdleCtl)

\* A cycle in which updating the display threw has returned, control idle.
C1_Witness ==
    /\ Settled /\ IdleCtl
    /\ last.branch = "success" /\ last.logged

\* C2: at most one request is in flight at any time, and while one is the
\* control is disabled.
C2_OneInFlight ==
    /\ Cardinality({i \in Slots : InFlight(i)}) <= 1
    /\ (\E i \in Slots : InFlight(i)) => btnDisabled

\* The request of a second cycle is in flight.
C2_Witness ==
    /\ last.st = "done"
    /\ \E i \in Slots : Awaiting(i, 31)

C4_ErrorFieldAlerts ==
    Settled /\ last.data # None /\ last.data[1].error # None =>
        /\ last.notes = << "Alert: " \o last.data[1].error[1] >>
        /\ last.kept
        /\ display = ""
        /\ hidden

\* C5: a failure (fetch rejected, body not JSON or null, a throw in the
\* branch taken) is logged, answered with the generic notification and
\* nothing else, and the control is enabled afterwards.
C5_FailureNotified ==
    Settled /\ Failed(last) =>
        /\ last.logged
        /\ last.notes = << ConnFailed >>
        /\ ~btnDisabled

\* A success-shaped body without weather_summary made the handler throw.
C5_Witness ==
    /\ Settled /\ ~btnDisabled
    /\ last.data # None /\ ~last.data[1].null
    /\ last.data[1].ws = None /\ last.data[1].error = None
    /\ last.logged

\* C6: a cycle shows at most one notification, and one that reached the end
\* of the success branch shows none.
C6_AtMostOneNotification ==
    /\ \A i \in Slots : Len(inv[i].notes) <= 1
    /\ \A i \in Slots : inv[i].scrolled => inv[i].notes = << >>
    /\ Len(last.notes) <= 1
    /\ last.scrolled => last.notes = << >>
    /\ last.branch = "error" => ~last.logged

\* A cycle that showed the application error has returned.
C6_Witness ==
    /\ Settled
    /\ last.notes = << "Alert: city not found" >>

\* The unit the specification names for each field.
SpecUnit == [temp |-> "°C", rh |-> "%", dew |-> "°C", wind |-> "km/h",
             vis |-> "km", pressure |-> "hPa"]

\* The fields whose unit is separated from the value by a space.
Spaced == {"wind", "vis", "pressure"}

\* What a cycle with a well-formed success body leaves apart from the
\* dashboard texts: the markup injected, the container visible, no
\* notification, and absent elements untouched.
SuccessShown ==
    /\ \A f \in Fields \ present : text[f] = Placeholder
    /\ display = last.data[1].result[1]
    /\ ~hidden
    /\ last.notes = << >> /\ ~last.logged

\* C7 (as claimed): after a well-formed success body every existing element
\* shows its value directly followed by its unit.
C7_ValueThenUnit ==
    Settled /\ last.data # None /\ WellFormed(last.data[1]) =>
        /\ \A f \in present :
              text[f] = ToString(last.data[1].ws[1][f]) \o SpecUnit[f]
        /\ SuccessShown

\* C7 (amended): the same, with a space between the value and the units
\* km/h, km and hPa.
C7_ValueThenSpacedUnit ==
    Settled /\ last.data # None /\ WellFormed(last.data[1]) =>
        /\ \A f \in present :
              text[f] = ToString(last.data[1].ws[1][f])
                          \o (IF f \in Spaced THEN " " ELSE "") \o SpecUnit[f]
        /\ SuccessShown

\* A well-formed success was shown in a document that has some of the six
\* elements, a spaced one among them, and lacks others.
C7_Witness ==
    /\ Settled /\ last.data # None /\ WellFormed(last.data[1])
    /\ "wind" \in present /\ "temp" \in present
    /\ present # Fields
    /\ ~hidden

\* C8: the busy state is in place before the request goes out: when the
\* handler is about to call fetch it has sent nothing, and the control is
\* disabled and labelled busy, the container hidden and the result display
\* empty, whatever was displayed before.
C8_BusyBeforeRequest ==
    \A i \in Slots :
        /\ inv[i].st = "run" /\ inv[i].line <= 25 => inv[i].sent = 0
        /\ At(i, 25) => BusyState

\* The handler is about to call fetch after a cycle that displayed a result.
C8_Witness ==
    /\ last.st = "done" /\ last.scrolled
    /\ \E i \in Slots : At(i, 25)

\* C9: while a request is in flight the container is hidden and the result
\* display empty; and when the panel is idle with the container visible, the
\* result display holds the markup of the request that completed last.
C9_NoStaleResult ==
    /\ \A i \in Slots : InFlight(i) => hidden /\ display = ""
    /\ NoneAlive /\ ~hidden =>
          /\ last.st = "done" /\ last.data # None
          /\ display = Str(last.data[1].result)

\* A request is in flight after a cycle that displayed a result.
C9_Witness ==
    /\ last.st = "done" /\ last.scrolled
    /\ \E i \in Slots : Awaiting(i, 25)

\* C10: the dashboard texts change only at lines 37-42 of the success
\* branch, and a cycle that showed a notification leaves them as they were
\* when it was triggered.
C10_DashboardFrame ==
    /\ [](Settled /\ last.notes # << >> => last.kept)
    /\ [][text' # text =>
            \E i \in Slots : /\ inv[i].branch = "success"
                             /\ \E f \in present : At(i, FieldLine[f])]_vars

\* After an error notification the dashboard still shows the values of an
\* earlier success while the result display is empty.
C10_Witness ==
    /\ Settled /\ last.notes # << >>
    /\ display = ""
    /\ \E f \in present : text[f] # Placeholder

====
